---- MODULE Spec2Model ----
(***************************************************************************)
(* Harmonia: a chat agent that routes one conversation turn to a sequence  *)
(* of expert personas, accumulates their findings, and streams a           *)
(* synthesized answer (src/src/server.ts), plus the session-state tools    *)
(* of src/src/tools.ts.                                                    *)
(*                                                                         *)
(* Two specifications share the variables:                                 *)
(*   Spec      one turn of Chat.onChatMessage, one step per await point;   *)
(*   ToolSpec  the tools' execute functions applied to agent.state.        *)
(* The experts call generateText without a `tools` option, so a turn never *)
(* runs a tool; the two parts do not interact.                             *)
(*                                                                         *)
(* Strings built by template literals are modelled structurally: the text  *)
(* `${agent} agent response: ${text}\n` is the record [agent, text] and    *)
(* string concatenation is sequence concatenation.                         *)
(***************************************************************************)
EXTENDS Integers, Sequences, FiniteSets, TLC

\* ---------------------------------------------------------------- bounds
MaxPlan == 3        \* longest array the classify call returns
MaxChunks == 2      \* most text-delta frames of one synthesis stream

\* ------------------------------------------------------ orchestrator data
\* z.enum(["schedule", "finance", "health", "knowledge"])
ExpertIdentity == {"schedule", "finance", "health", "knowledge"}

\* a label the provider may emit that is outside the enum
UnknownLabel == "legal"

ProviderLabels == ExpertIdentity \cup {UnknownLabel}

\* texts an expert's generateText may resolve to ("" = no text produced)
Texts == {"", "advice"}

SeqsUpTo(S, n) == UNION {[1..k -> S] : k \in 0..n}

\* arrays the provider may return for the classify call
ProviderOutputs == SeqsUpTo(ProviderLabels, MaxPlan)

\* this.messages when the turn starts: the user's message
UserMessage == [role |-> "user", content |-> <<>>]

ErrorNotice == "error"      \* dataStream.writeData("Error while processing agents") / error part
TextDelta == "text-delta"
FinishFrame == "finish"

VARIABLES
    pc,                 \* position of the execute callback
    connected,          \* the transport connection is still open
    messages,           \* this.messages
    processedMessages,  \* the working context (mutated by push)
    classified,         \* array the provider returned to generateObject
    agentsInvolved,     \* the routing plan the loop iterates
    idx,                \* 1-based position of the for..of loop
    agentResponse,      \* accumulated findings string
    invoked,            \* expert invokers called so far, in call order
    contexts,           \* the `query` each invoker was called with
    frames,             \* parts written to the data stream
    synthCalls,         \* number of streamText calls
    synthInput,         \* the "Expert insights" passed to streamText
    persistLog,         \* one entry per onFinish call: had execute returned?
    executeReturned,    \* the execute callback has returned
    failure,            \* stage that failed: none/routing/expert/synthesis
    state,              \* agent.state
    lastCall            \* the last tool call: tool, arguments, pre-state, outcome

turnVars == <<pc, connected, messages, processedMessages, classified,
              agentsInvolved, idx, agentResponse, invoked, contexts, frames,
              synthCalls, synthInput, persistLog, executeReturned, failure>>
toolVars == <<state, lastCall>>
vars == <<pc, connected, messages, processedMessages, classified,
          agentsInvolved, idx, agentResponse, invoked, contexts, frames,
          synthCalls, synthInput, persistLog, executeReturned, failure,
          state, lastCall>>

\* --------------------------------------------------------- session state
\* agent.state is undefined until somebody sets it (Chat declares no
\* initialState); once set it is an object whose fields may be missing.
\* val is a function from the field names present to their values.
Undefined == [set |-> FALSE, val |-> <<>>]

NoCall == [tool |-> "none"]

TurnInit ==
    /\ pc = "idle"
    /\ connected = TRUE
    /\ messages = <<UserMessage>>
    /\ processedMessages = <<>>
    /\ classified = <<>>
    /\ agentsInvolved = <<>>
    /\ idx = 1
    /\ agentResponse = <<>>
    /\ invoked = <<>>
    /\ contexts = <<>>
    /\ frames = <<>>
    /\ synthCalls = 0
    /\ synthInput = <<>>
    /\ persistLog = <<>>
    /\ executeReturned = FALSE
    /\ failure = "none"

Init ==
    /\ TurnInit
    /\ state = Undefined
    /\ lastCall = NoCall

\* ------------------------------------------------------------- the turn
\* processToolCalls({messages, dataStream, tools, executions}) with
\* executions = {}: no tool part has a pending execution to run.
ProcessToolCalls(msgs) == msgs

\* generateObject({output: 'array', schema: z.enum([...])}).object:
\* the array is validated element by element against the enum; a failed
\* validation rejects the call.
SchemaAccepts(raw) == \A i \in 1..Len(raw) : raw[i] \in ExpertIdentity

\* agentRouter as it would be with the schema check lost
agentRouterUnvalidated(raw) == [ok |-> TRUE, object |-> raw]

agentRouter(raw) ==
    IF SchemaAccepts(raw)
    THEN [ok |-> TRUE, object |-> raw]
    ELSE [ok |-> FALSE, object |-> <<>>]

\* the catch block logging only
CatchHandlerSilent(fs) == fs

\* catch (error) { ...; return dataStream.writeData("Error while processing agents") }
CatchHandler(fs) == Append(fs, ErrorNotice)

\* onChatMessage is called: execute starts and awaits processToolCalls
OnChatMessage ==
    /\ pc = "idle"
    /\ pc' = "toolcalls"
    /\ UNCHANGED <<connected, messages, processedMessages, classified,
                   agentsInvolved, idx, agentResponse, invoked, contexts,
                   frames, synthCalls, synthInput, persistLog,
                   executeReturned, failure, state, lastCall>>

\* processToolCalls resolves; agentRouter issues the classify call
ProcessToolCallsDone ==
    /\ pc = "toolcalls"
    /\ processedMessages' = ProcessToolCalls(messages)
    /\ pc' = "routing"
    /\ UNCHANGED <<connected, messages, classified, agentsInvolved, idx,
                   agentResponse, invoked, contexts, frames, synthCalls,
                   synthInput, persistLog, executeReturned, failure, state,
                   lastCall>>

\* the classify call resolves with an array the schema accepts
AgentRouterReturns ==
    /\ pc = "routing"
    /\ \E raw \in ProviderOutputs :
         /\ agentRouter(raw).ok
         /\ classified' = raw
         /\ agentsInvolved' = agentRouter(raw).object
    /\ idx' = 1
    /\ agentResponse' = <<>>
    /\ pc' = "loop"
    /\ UNCHANGED <<connected, messages, processedMessages, invoked, contexts,
                   frames, synthCalls, synthInput, persistLog,
                   executeReturned, failure, state, lastCall>>

\* the classify call rejects: the provider faults, or the array fails the schema
AgentRouterThrows ==
    /\ pc = "routing"
    /\ \E raw \in ProviderOutputs, providerFault \in BOOLEAN :
         /\ (providerFault \/ ~agentRouter(raw).ok)
         /\ classified' = IF providerFault THEN <<>> ELSE raw
    /\ frames' = CatchHandler(frames)
    /\ failure' = "routing"
    /\ executeReturned' = TRUE
    /\ pc' = "done"
    /\ UNCHANGED <<connected, messages, processedMessages, agentsInvolved,
                   idx, agentResponse, invoked, contexts, synthCalls,
                   synthInput, persistLog, state, lastCall>>

\* the loop walking the plan from its end
CurrentAgentReversed(plan, i) == plan[Len(plan) - i + 1]

\* for (const agent of agentsInvolved): the entry the loop is at
CurrentAgent(plan, i) == plan[i]

\* top of a loop iteration with an entry left: the switch calls the
\* entry's invoker (generateText is issued), or its default branch throws
InvokeExpert ==
    /\ pc = "loop"
    /\ idx <= Len(agentsInvolved)
    /\ LET agent == CurrentAgent(agentsInvolved, idx) IN
         IF agent \in ExpertIdentity
         THEN /\ invoked' = Append(invoked, agent)
              /\ contexts' = Append(contexts, processedMessages)
              /\ pc' = "expert"
              /\ UNCHANGED <<frames, failure, executeReturned>>
         ELSE /\ frames' = CatchHandler(frames)
              /\ failure' = "routing"
              /\ executeReturned' = TRUE
              /\ pc' = "done"
              /\ UNCHANGED <<invoked, contexts>>
    /\ UNCHANGED <<connected, messages, processedMessages, classified,
                   agentsInvolved, idx, agentResponse, synthCalls,
                   synthInput, persistLog, state, lastCall>>

\* `${agent} agent response: ${text}\n`
Finding(agent, text) == [agent |-> agent, text |-> text]

\* the message pushed after an expert: {role: "assistant", content: agentResponse}
AssistantMessage(content) == [role |-> "assistant", content |-> content]

\* the awaited generateText resolves with its text
ExpertReturns ==
    /\ pc = "expert"
    /\ \E text \in Texts :
         LET response == Append(agentResponse,
                                Finding(agentsInvolved[idx], text)) IN
           /\ agentResponse' = response
           /\ processedMessages' =
                  Append(processedMessages, AssistantMessage(response))
    /\ idx' = idx + 1
    /\ pc' = "loop"
    /\ UNCHANGED <<connected, messages, classified, agentsInvolved, invoked,
                   contexts, frames, synthCalls, synthInput, persistLog,
                   executeReturned, failure, state, lastCall>>

\* the rejection swallowed inside the loop, which then goes on
ExpertThrowsSwallowed ==
    /\ pc = "expert"
    /\ failure' = "expert"
    /\ idx' = idx + 1
    /\ pc' = "loop"
    /\ UNCHANGED <<connected, messages, processedMessages, classified,
                   agentsInvolved, agentResponse, invoked, contexts, frames,
                   synthCalls, synthInput, persistLog, executeReturned,
                   state, lastCall>>

\* the awaited generateText rejects (provider fault): the catch block runs
ExpertThrows ==
    /\ pc = "expert"
    /\ frames' = CatchHandler(frames)
    /\ failure' = "expert"
    /\ executeReturned' = TRUE
    /\ pc' = "done"
    /\ UNCHANGED <<connected, messages, processedMessages, classified,
                   agentsInvolved, idx, agentResponse, invoked, contexts,
                   synthCalls, synthInput, persistLog, state, lastCall>>

\* the end of the loop faulting when no expert has contributed
SynthesizeRequiresFindings ==
    /\ pc = "loop"
    /\ idx > Len(agentsInvolved)
    /\ IF agentResponse = <<>>
       THEN /\ frames' = CatchHandler(frames)
            /\ failure' = "routing"
            /\ pc' = "done"
            /\ UNCHANGED <<synthCalls, synthInput>>
       ELSE /\ synthCalls' = synthCalls + 1
            /\ synthInput' = agentResponse
            /\ pc' = "streaming"
            /\ UNCHANGED <<frames, failure>>
    /\ executeReturned' = TRUE
    /\ UNCHANGED <<connected, messages, processedMessages, classified,
                   agentsInvolved, idx, agentResponse, invoked, contexts,
                   persistLog, state, lastCall>>

\* the loop is over: streamText is called, its stream is merged into the
\* data stream, and execute returns without awaiting the stream
Synthesize ==
    /\ pc = "loop"
    /\ idx > Len(agentsInvolved)
    /\ synthCalls' = synthCalls + 1
    /\ synthInput' = agentResponse
    /\ executeReturned' = TRUE
    /\ pc' = "streaming"
    /\ UNCHANGED <<connected, messages, processedMessages, classified,
                   agentsInvolved, idx, agentResponse, invoked, contexts,
                   frames, persistLog, failure, state, lastCall>>

Count(fs, kind) == Cardinality({i \in 1..Len(fs) : fs[i] = kind})

\* the merged stream forwards a chunk of the answer
StreamDelta ==
    /\ pc = "streaming"
    /\ Count(frames, TextDelta) < MaxChunks
    /\ frames' = Append(frames, TextDelta)
    /\ UNCHANGED <<pc, connected, messages, processedMessages, classified,
                   agentsInvolved, idx, agentResponse, invoked, contexts,
                   synthCalls, synthInput, persistLog, executeReturned,
                   failure, state, lastCall>>

\* streamText called without the onFinish option
StreamFinishNoPersist ==
    /\ pc = "streaming"
    /\ frames' = Append(frames, FinishFrame)
    /\ pc' = "done"
    /\ UNCHANGED <<connected, messages, processedMessages, classified,
                   agentsInvolved, idx, agentResponse, invoked, contexts,
                   synthCalls, synthInput, persistLog, executeReturned,
                   failure, state, lastCall>>

\* the stream ends: streamText calls the onFinish it was given
StreamFinish ==
    /\ pc = "streaming"
    /\ persistLog' = Append(persistLog, [afterReturn |-> executeReturned])
    /\ frames' = Append(frames, FinishFrame)
    /\ pc' = "done"
    /\ UNCHANGED <<connected, messages, processedMessages, classified,
                   agentsInvolved, idx, agentResponse, invoked, contexts,
                   synthCalls, synthInput, executeReturned, failure, state,
                   lastCall>>

\* the stream fails: onError logs, the merged stream carries an error part,
\* onFinish is not called
StreamError ==
    /\ pc = "streaming"
    /\ frames' = Append(frames, ErrorNotice)
    /\ failure' = "synthesis"
    /\ pc' = "done"
    /\ UNCHANGED <<connected, messages, processedMessages, classified,
                   agentsInvolved, idx, agentResponse, invoked, contexts,
                   synthCalls, synthInput, persistLog, executeReturned,
                   state, lastCall>>

\* the client goes away while the turn is in progress; nothing in
\* onChatMessage observes it
Drop ==
    /\ connected
    /\ pc \notin {"idle", "done"}
    /\ connected' = FALSE
    /\ UNCHANGED <<pc, messages, processedMessages, classified,
                   agentsInvolved, idx, agentResponse, invoked, contexts,
                   frames, synthCalls, synthInput, persistLog,
                   executeReturned, failure, state, lastCall>>

Next ==
    \/ OnChatMessage
    \/ ProcessToolCallsDone
    \/ AgentRouterReturns
    \/ AgentRouterThrows
    \/ InvokeExpert
    \/ ExpertReturns
    \/ ExpertThrows
    \/ Synthesize
    \/ StreamDelta
    \/ StreamFinish
    \/ StreamError
    \/ Drop

Spec == Init /\ [][Next]_vars

\* ------------------------------------------------------------ the tools
MaxBatch == 2       \* most transactions in one addTransactions call
MaxLedger == 3      \* most ledger entries kept in the model
MaxNotes == 2       \* most notes kept in the model

\* arguments the parameter schemas admit
TxInputs ==
    {[date |-> "2024-01-01", description |-> "rent", amount |-> -50],
     [date |-> "soon", description |-> "pay", amount |-> 20]}
Weights == {0, 70}
Heights == {0, 175}
\* strings that are searched are sequences of characters
Gym == <<"G", "y", "m">>
Tax == <<"T", "a", "x">>
plan == <<"p", "l", "a", "n">>
taxes == <<"t", "a", "x", "e", "s">>
NoteTitles == {Gym, Tax}
NoteContents == {plan, taxes}
TagLists == {<<"b", "a">>}
\* storeNote arguments: a tagged note and a note stored without tags
NoteInputs ==
    {[title |-> Gym, content |-> taxes, tags |-> <<<<"b", "a">>>>],
     [title |-> Tax, content |-> plan, tags |-> <<>>]}
\* getTransactionHistory / getNotes arguments
Limits == {-1, 0, 1, 2}
Tags == {"", "a"}
Queries == {<<"T", "A", "X">>, <<"P", "l", "a", "n">>}
Timestamps == {1}       \* value new Date() gives

\* an optional argument is <<>> when absent and <<v>> when given
Optional(S) == {<<>>} \cup {<<v>> : v \in S}

\* agent.setState(v)
SetState(v) == [set |-> TRUE, val |-> v]

\* {...agent.state}: spreading undefined contributes no field
Spread(s) == IF s.set THEN s.val ELSE <<>>

Has(s, f) == s.set /\ f \in DOMAIN s.val

\* agent.state.f as an optional value (reads of a set state only)
Get(s, f) == IF Has(s, f) THEN <<s.val[f]>> ELSE <<>>

\* new Date(s): a date for a parseable string, Invalid Date otherwise
NewDate(str) == IF str = "2024-01-01" THEN "2024-01-01T00:00:00.000Z"
                                       ELSE "Invalid Date"

LedgerEntry(t) ==
    [date |-> NewDate(t.date), description |-> t.description,
     amount |-> t.amount]

\* transactions.map(...)
LedgerEntries(ts) == [i \in 1..Len(ts) |-> LedgerEntry(ts[i])]

Throws(s) == [state |-> s, outcome |-> "throw", result |-> <<>>]
Returns(s, r) == [state |-> s, outcome |-> "return", result |-> r]

\* addTransactions.execute putting the new entries in front of the ledger
addTransactionsPrepends(s, transactions) ==
    IF ~Has(s, "transactions")
    THEN Throws(s)
    ELSE Returns(
           SetState(("transactions" :>
                       (LedgerEntries(transactions)
                          \o s.val["transactions"]))
                    @@ Spread(s)),
           <<[k |-> "Transactions recorded", v |-> Len(transactions)]>>)

\* addTransactions.execute: reading agent.state.transactions throws when
\* the state is undefined, and spreading it throws when the field is missing
addTransactionsExec(s, transactions) ==
    IF ~Has(s, "transactions")
    THEN Throws(s)
    ELSE Returns(
           SetState(("transactions" :>
                       (s.val["transactions"]
                          \o LedgerEntries(transactions)))
                    @@ Spread(s)),
           <<[k |-> "Transactions recorded", v |-> Len(transactions)]>>)

\* storeNote.execute
storeNoteExec(s, title, content, tags, timestamp) ==
    LET note == [title |-> title, content |-> content,
                 timestamp |-> timestamp,
                 tags |-> IF tags = <<>> THEN <<>> ELSE tags[1]] IN
    IF ~Has(s, "notes")
    THEN Throws(s)
    ELSE Returns(
           SetState(("notes" :> Append(s.val["notes"], note)) @@ Spread(s)),
           <<[k |-> "Note saved", v |-> title]>>)

\* bmi.toFixed(2), in hundredths: weight / (height / 100)^2 rounded
BmiHundredths(weight, height) ==
    (weight * 1000000 + (height * height) \div 2) \div (height * height)

\* the response string of updateHealthMetrics, as its labelled parts
HealthResponse(weight, height) ==
    (IF weight # <<>> /\ weight[1] # 0
       THEN <<[k |-> "Weight", v |-> weight[1]]>> ELSE <<>>)
    \o (IF height # <<>> /\ height[1] # 0
       THEN <<[k |-> "Height", v |-> height[1]]>> ELSE <<>>)
    \o (IF weight # <<>> /\ weight[1] # 0 /\ height # <<>> /\ height[1] # 0
       THEN <<[k |-> "BMI", v |-> BmiHundredths(weight[1], height[1])]>>
       ELSE <<>>)

\* updateHealthMetrics.execute with each setState replacing the whole state
updateHealthMetricsNoSpread(s, weight, height) ==
    LET s1 == IF weight # <<>>
              THEN SetState("weight" :> weight[1]) ELSE s
        s2 == IF height # <<>>
              THEN SetState("height" :> height[1]) ELSE s1
        writes == (IF weight # <<>> THEN 1 ELSE 0)
                  + (IF height # <<>> THEN 1 ELSE 0)
    IN ("writes" :> writes)
       @@ (IF ~s2.set
           THEN Throws(s2)
           ELSE Returns(s2, HealthResponse(Get(s2, "weight"),
                                           Get(s2, "height"))))

\* updateHealthMetrics.execute with the second setState spreading the state
\* as it was before the call
updateHealthMetricsStale(s, weight, height) ==
    LET s1 == IF weight # <<>>
              THEN SetState(("weight" :> weight[1]) @@ Spread(s)) ELSE s
        s2 == IF height # <<>>
              THEN SetState(("height" :> height[1]) @@ Spread(s)) ELSE s1
        writes == (IF weight # <<>> THEN 1 ELSE 0)
                  + (IF height # <<>> THEN 1 ELSE 0)
    IN ("writes" :> writes)
       @@ (IF ~s2.set
           THEN Throws(s2)
           ELSE Returns(s2, HealthResponse(Get(s2, "weight"),
                                           Get(s2, "height"))))

\* updateHealthMetrics.execute: one setState per given argument, then the
\* stored values are read back (a throw when the state is still undefined)
updateHealthMetricsExec(s, weight, height) ==
    LET s1 == IF weight # <<>>
              THEN SetState(("weight" :> weight[1]) @@ Spread(s)) ELSE s
        s2 == IF height # <<>>
              THEN SetState(("height" :> height[1]) @@ Spread(s1)) ELSE s1
        writes == (IF weight # <<>> THEN 1 ELSE 0)
                  + (IF height # <<>> THEN 1 ELSE 0)
    IN ("writes" :> writes)
       @@ (IF ~s2.set
           THEN Throws(s2)
           ELSE Returns(s2, HealthResponse(Get(s2, "weight"),
                                           Get(s2, "height"))))

LenOf(s, f) == IF Has(s, f) THEN Len(s.val[f]) ELSE 0

AddTransactions ==
    /\ \E transactions \in SeqsUpTo(TxInputs, MaxBatch) :
         /\ LenOf(state, "transactions") + Len(transactions) <= MaxLedger
         /\ LET r == addTransactionsExec(state, transactions) IN
              /\ state' = r.state
              /\ lastCall' = [tool |-> "addTransactions",
                              transactions |-> transactions,
                              outcome |-> r.outcome, result |-> r.result]
    /\ UNCHANGED turnVars

StoreNote ==
    /\ \E n \in NoteInputs, timestamp \in Timestamps :
         /\ n.title \in NoteTitles
         /\ n.content \in NoteContents
         /\ n.tags \in Optional(TagLists)
         /\ LenOf(state, "notes") < MaxNotes
         /\ LET r == storeNoteExec(state, n.title, n.content, n.tags,
                                   timestamp) IN
              /\ state' = r.state
              /\ lastCall' = [tool |-> "storeNote", title |-> n.title,
                              content |-> n.content, tags |-> n.tags,
                              outcome |-> r.outcome, result |-> r.result]
    /\ UNCHANGED turnVars

UpdateHealthMetrics ==
    /\ \E weight \in Optional(Weights), height \in Optional(Heights) :
         LET r == updateHealthMetricsExec(state, weight, height) IN
           /\ state' = r.state
           /\ lastCall' = [tool |-> "updateHealthMetrics",
                           weight |-> weight, height |-> height,
                           writes |-> r.writes,
                           outcome |-> r.outcome, result |-> r.result]
    /\ UNCHANGED turnVars

\* ---- the reading tools
Max(a, b) == IF a >= b THEN a ELSE b
Min(a, b) == IF a <= b THEN a ELSE b

\* Array.prototype.slice(start): a negative start counts from the end
JsSlice(q, start) ==
    LET k == IF start < 0 THEN Max(Len(q) + start, 0)
                          ELSE Min(start, Len(q))
    IN SubSeq(q, k + 1, Len(q))

\* JSON.stringify of a Date: its ISO string, null for an Invalid Date
JsonDate(d) == IF d = "Invalid Date" THEN "null" ELSE d

JsonLedgerEntry(e) ==
    [date |-> JsonDate(e.date), description |-> e.description,
     amount |-> e.amount]

\* JSON.stringify(transactions)
JsonLedger(q) == [i \in 1..Len(q) |-> JsonLedgerEntry(q[i])]

\* JSON.stringify(notes): the timestamp becomes its ISO string
JsonNote(n) ==
    [title |-> n.title, content |-> n.content,
     timestamp |-> <<"iso", n.timestamp>>, tags |-> n.tags]

JsonNotes(q) == [i \in 1..Len(q) |-> JsonNote(q[i])]

\* getTransactionHistory.execute with slice(limit) in place of slice(-limit)
getTransactionHistoryFromStart(s, limit) ==
    IF ~Has(s, "transactions") \/ Len(s.val["transactions"]) = 0
    THEN Returns(s, [found |-> FALSE, value |-> <<>>])
    ELSE LET transactions ==
                 IF limit # <<>> /\ limit[1] # 0
                 THEN JsSlice(s.val["transactions"], limit[1])
                 ELSE s.val["transactions"]
         IN Returns(s, [found |-> TRUE, value |-> JsonLedger(transactions)])

\* getTransactionHistory.execute: `limit ? slice(-limit) : all`
getTransactionHistoryExec(s, limit) ==
    IF ~Has(s, "transactions") \/ Len(s.val["transactions"]) = 0
    THEN Returns(s, [found |-> FALSE, value |-> <<>>])
    ELSE LET transactions ==
                 IF limit # <<>> /\ limit[1] # 0
                 THEN JsSlice(s.val["transactions"], 0 - limit[1])
                 ELSE s.val["transactions"]
         IN Returns(s, [found |-> TRUE, value |-> JsonLedger(transactions)])

\* String.prototype.toLowerCase on the characters in use
LowerChar(c) ==
    CASE c = "G" -> "g"
      [] c = "T" -> "t"
      [] c = "A" -> "a"
      [] c = "X" -> "x"
      [] c = "P" -> "p"
      [] OTHER -> c

ToLowerCase(str) == [i \in 1..Len(str) |-> LowerChar(str[i])]

\* String.prototype.includes
Includes(str, sub) ==
    \E k \in 0..(Len(str) - Len(sub)) :
        \A i \in 1..Len(sub) : str[k + i] = sub[i]

\* Array.prototype.includes
ArrayIncludes(arr, x) == \E i \in 1..Len(arr) : arr[i] = x

\* getNotes.execute with the query filter applied to all the notes
getNotesQueryReplaces(s, tag, query) ==
    IF ~Has(s, "notes") \/ Len(s.val["notes"]) = 0
    THEN Returns(s, [found |-> FALSE, value |-> <<>>])
    ELSE LET TagTest(note) == ArrayIncludes(note.tags, tag[1])
             QueryTest(note) ==
                 \/ Includes(ToLowerCase(note.title), ToLowerCase(query[1]))
                 \/ Includes(ToLowerCase(note.content),
                             ToLowerCase(query[1]))
             notes1 == IF tag # <<>> /\ tag[1] # ""
                       THEN SelectSeq(s.val["notes"], TagTest)
                       ELSE s.val["notes"]
             notes2 == IF query # <<>> /\ query[1] # <<>>
                       THEN SelectSeq(s.val["notes"], QueryTest)
                       ELSE notes1
         IN Returns(s, [found |-> TRUE, value |-> JsonNotes(notes2)])

\* getNotes.execute: `if (tag)` filter, then `if (query)` filter
getNotesExec(s, tag, query) ==
    IF ~Has(s, "notes") \/ Len(s.val["notes"]) = 0
    THEN Returns(s, [found |-> FALSE, value |-> <<>>])
    ELSE LET TagTest(note) == ArrayIncludes(note.tags, tag[1])
             QueryTest(note) ==
                 \/ Includes(ToLowerCase(note.title), ToLowerCase(query[1]))
                 \/ Includes(ToLowerCase(note.content),
                             ToLowerCase(query[1]))
             notes1 == IF tag # <<>> /\ tag[1] # ""
                       THEN SelectSeq(s.val["notes"], TagTest)
                       ELSE s.val["notes"]
             notes2 == IF query # <<>> /\ query[1] # <<>>
                       THEN SelectSeq(notes1, QueryTest)
                       ELSE notes1
         IN Returns(s, [found |-> TRUE, value |-> JsonNotes(notes2)])

\* the quotient with the height left in centimetres
BmiNoMeters(weight, height) == [num |-> weight, den |-> height * height]

\* weight / (heightInMeters * heightInMeters), heightInMeters = height / 100,
\* as the exact quotient num / den
Bmi(weight, height) ==
    [num |-> weight * 100 * 100, den |-> height * height]

\* JSON.stringify(metrics): undefined members are left out
JsonMetrics(weight, height, bmi) ==
    (IF weight # <<>> THEN "weight" :> weight[1] ELSE <<>>)
    @@ (IF height # <<>> THEN "height" :> height[1] ELSE <<>>)
    @@ (IF bmi # <<>> THEN "bmi" :> bmi[1] ELSE <<>>)

\* getHealthMetrics.execute keeping the computed bmi in the state
getHealthMetricsCaching(s) ==
    IF ~s.set
    THEN Returns(s, [found |-> FALSE, value |-> <<>>])
    ELSE LET weight == Get(s, "weight")
             height == Get(s, "height")
             bmi == IF weight # <<>> /\ weight[1] # 0
                       /\ height # <<>> /\ height[1] # 0
                    THEN <<Bmi(weight[1], height[1])>> ELSE <<>>
         IN Returns(IF bmi # <<>>
                    THEN SetState(("bmi" :> bmi[1]) @@ Spread(s)) ELSE s,
                    [found |-> TRUE,
                     value |-> JsonMetrics(weight, height, bmi)])

\* getHealthMetrics.execute
getHealthMetricsExec(s) ==
    IF ~s.set
    THEN Returns(s, [found |-> FALSE, value |-> <<>>])
    ELSE LET weight == Get(s, "weight")
             height == Get(s, "height")
             bmi == IF weight # <<>> /\ weight[1] # 0
                       /\ height # <<>> /\ height[1] # 0
                    THEN <<Bmi(weight[1], height[1])>> ELSE <<>>
         IN Returns(s, [found |-> TRUE,
                        value |-> JsonMetrics(weight, height, bmi)])

GetTransactionHistory ==
    /\ \E limit \in Optional(Limits) :
         LET r == getTransactionHistoryExec(state, limit) IN
           /\ state' = r.state
           /\ lastCall' = [tool |-> "getTransactionHistory",
                           limit |-> limit,
                           outcome |-> r.outcome, result |-> r.result]
    /\ UNCHANGED turnVars

GetNotes ==
    /\ \E tag \in Optional(Tags), query \in Optional(Queries) :
         LET r == getNotesExec(state, tag, query) IN
           /\ state' = r.state
           /\ lastCall' = [tool |-> "getNotes", tag |-> tag,
                           query |-> query,
                           outcome |-> r.outcome, result |-> r.result]
    /\ UNCHANGED turnVars

GetHealthMetrics ==
    /\ LET r == getHealthMetricsExec(state) IN
         /\ state' = r.state
         /\ lastCall' = [tool |-> "getHealthMetrics",
                         outcome |-> r.outcome, result |-> r.result]
    /\ UNCHANGED turnVars

\* agent.state when a tool runs: never set, or set earlier (by a tool or by
\* a client's state sync) to an object holding some of the fields
InitialStates ==
    {Undefined,
     SetState("transactions" :> <<>>),
     SetState("notes" :> <<>>),
     SetState(("transactions" :> <<>>) @@ ("notes" :> <<>>))}

ToolInit ==
    /\ TurnInit
    /\ state \in InitialStates
    /\ lastCall = NoCall

ToolNext ==
    \/ AddTransactions
    \/ StoreNote
    \/ UpdateHealthMetrics
    \/ GetTransactionHistory
    \/ GetNotes
    \/ GetHealthMetrics

ToolSpec == ToolInit /\ [][ToolNext]_vars

\* ============================================================ properties
IsPrefix(a, b) ==
    /\ Len(a) <= Len(b)
    /\ \A i \in 1..Len(a) : a[i] = b[i]

NoDuplicates(q) == \A i, j \in 1..Len(q) : q[i] = q[j] => i = j

HasUnknownLabel(q) == \E i \in 1..Len(q) : q[i] \notin ExpertIdentity

\* C1: the i-th expert invocation of a turn is for the i-th plan entry (the
\* invocations are a prefix of the plan at every moment), and once the loop
\* has run to its end there is exactly one invocation per plan entry.
C1_PlanOrder ==
    /\ IsPrefix(invoked, agentsInvolved)
    /\ (synthCalls > 0 => invoked = agentsInvolved)

C1_Witness ==
    /\ synthCalls = 1
    /\ Len(agentsInvolved) = 3
    /\ agentsInvolved[1] # agentsInvolved[2]
    /\ agentsInvolved[2] # agentsInvolved[3]
    /\ invoked = agentsInvolved

\* C2: after an expert invocation has raised a provider fault the turn is
\* over: the faulting expert is the last one invoked, streamText was never
\* called and onFinish was never called.
C2_ExpertFaultAborts ==
    failure = "expert" =>
        /\ pc = "done"
        /\ Len(invoked) = idx
        /\ synthCalls = 0
        /\ persistLog = <<>>
        /\ Count(frames, FinishFrame) = 0
        /\ Count(frames, TextDelta) = 0

C2_Witness ==
    /\ failure = "expert"
    /\ Len(agentsInvolved) = 3
    /\ idx = 2
    /\ Len(invoked) = 2

\* C3: the routing plan the loop iterates never holds the same expert twice
\* and is never longer than the expert identity set.
C3_PlanDeduplicated ==
    /\ NoDuplicates(agentsInvolved)
    /\ Len(agentsInvolved) <= Cardinality(ExpertIdentity)

\* C5: when the classify result holds a label outside the expert identity
\* set, the turn ends at once with an error frame and without any expert
\* invocation or synthesis.
C5_UnknownLabelFatal ==
    HasUnknownLabel(classified) =>
        /\ pc = "done"
        /\ failure = "routing"
        /\ invoked = <<>>
        /\ synthCalls = 0
        /\ Count(frames, ErrorNotice) = 1

C5_Witness ==
    /\ Len(classified) = 3
    /\ classified[1] \in ExpertIdentity
    /\ classified[2] \in ExpertIdentity
    /\ classified[3] = UnknownLabel
    /\ pc = "done"

\* C6: the (k+1)-th expert is invoked with the original conversation
\* followed by k appended entries, the i-th of which holds the finding of
\* the i-th expert and nothing else.
C6_FindingAppendedOnce ==
    \A k \in 1..Len(contexts) :
        /\ Len(contexts[k]) = Len(ProcessToolCalls(messages)) + k - 1
        /\ \A i \in 1..(k - 1) :
              contexts[k][Len(ProcessToolCalls(messages)) + i] =
                  AssistantMessage(<<agentResponse[i]>>)

\* C7: a turn that ended with a failed stage has an error frame and no
\* finish frame, and when the failure was in routing or in an expert it
\* has no text-delta frame at all.
C7_FailureEmitsError ==
    (pc = "done" /\ failure # "none") =>
        /\ Count(frames, ErrorNotice) >= 1
        /\ Count(frames, FinishFrame) = 0
        /\ (failure # "synthesis" => Count(frames, TextDelta) = 0)

C7_Witness ==
    /\ pc = "done"
    /\ failure = "synthesis"
    /\ Count(frames, TextDelta) >= 1
    /\ Len(invoked) >= 1

\* C8 as stated: a fully successful turn has persisted the assistant turn
\* exactly once, and had done so before execute returned.
C8_PersistedBeforeReturn ==
    (pc = "done" /\ failure = "none") =>
        /\ Len(persistLog) = 1
        /\ ~persistLog[1].afterReturn

\* C8 amended: a fully successful turn has persisted the assistant turn
\* exactly once, and the persistence happened after execute had returned.
C8_PersistedOnceAfterReturn ==
    (pc = "done" /\ failure = "none") =>
        /\ Len(persistLog) = 1
        /\ persistLog[1].afterReturn

C8_Witness ==
    /\ pc = "done"
    /\ failure = "none"
    /\ Len(invoked) >= 1
    /\ Len(persistLog) = 1

\* C9: once the transport connection is dropped, no step of the turn
\* issues a further expert invocation.
C9_NoInvocationAfterDrop ==
    [][~connected => invoked' = invoked]_vars

\* the step is a call of the tool: every tool action records itself in
\* lastCall, so a step that changes vars and ends with lastCall.tool = t
\* is a step of t
Called(t) == lastCall'.tool = t

\* C10: every mutating tool changes only its own field: updateHealthMetrics
\* keeps transactions and notes and touches weight/height only when the
\* argument is given; addTransactions keeps notes, weight and height;
\* storeNote keeps transactions, weight and height.
C10_ToolsChangeOwnFieldOnly ==
    [][/\ Called("updateHealthMetrics") =>
            /\ Get(state', "transactions") = Get(state, "transactions")
            /\ Get(state', "notes") = Get(state, "notes")
            /\ (lastCall'.weight = <<>> =>
                    Get(state', "weight") = Get(state, "weight"))
            /\ (lastCall'.height = <<>> =>
                    Get(state', "height") = Get(state, "height"))
       /\ Called("addTransactions") =>
            /\ Get(state', "notes") = Get(state, "notes")
            /\ Get(state', "weight") = Get(state, "weight")
            /\ Get(state', "height") = Get(state, "height")
       /\ Called("storeNote") =>
            /\ Get(state', "transactions") = Get(state, "transactions")
            /\ Get(state', "weight") = Get(state, "weight")
            /\ Get(state', "height") = Get(state, "height")]_vars

C10_Witness ==
    /\ lastCall.tool = "updateHealthMetrics"
    /\ lastCall.outcome = "return"
    /\ lastCall.weight = <<>>
    /\ lastCall.height = <<175>>
    /\ Get(state, "weight") = <<70>>
    /\ LenOf(state, "notes") = 2
    /\ LenOf(state, "transactions") = 2

\* the classify call has resolved with a plan the loop accepted
Routed ==
    \/ pc \in {"loop", "expert", "streaming"}
    \/ pc = "done" /\ failure \in {"none", "expert", "synthesis"}

\* C11: a turn whose router returned the empty plan invokes no expert; the
\* step that leaves the loop does not fault: it calls the Synthesizer, with
\* no findings, and writes no error frame; the Synthesizer is called once,
\* and a turn that ends without a failed synthesis stream has no error
\* frame at all.
C11_EmptyPlanLegal ==
    /\ []((Routed /\ agentsInvolved = <<>>) =>
            /\ invoked = <<>>
            /\ failure \in {"none", "synthesis"}
            /\ (pc # "loop" => synthCalls = 1 /\ synthInput = <<>>)
            /\ (failure = "none" => Count(frames, ErrorNotice) = 0))
    /\ [][(pc = "loop" /\ agentsInvolved = <<>>) =>
            \/ pc' = "loop"
            \/ /\ pc' = "streaming"
               /\ failure' = "none"
               /\ synthCalls' = 1
               /\ synthInput' = <<>>
               /\ invoked' = <<>>
               /\ Count(frames', ErrorNotice) = 0]_vars

C11_Witness ==
    /\ pc = "done"
    /\ failure = "none"
    /\ classified = <<>>
    /\ agentsInvolved = <<>>
    /\ synthCalls = 1
    /\ Len(persistLog) = 1

\* C12: no finding accumulated by the orchestrator has the empty text.
C12_FindingNeverEmpty ==
    \A i \in 1..Len(agentResponse) : agentResponse[i].text # ""

\* agent.state.transactions / agent.state.notes, empty when missing
ListOf(s, f) == IF Has(s, f) THEN s.val[f] ELSE <<>>

\* C13: on a session whose state was never set, a first call of
\* addTransactions, storeNote or updateHealthMetrics (given an argument)
\* succeeds and leaves a state holding exactly the data supplied.
C13_LazyCreation ==
    [][(~state.set /\ (\/ Called("addTransactions")
                      \/ Called("storeNote")
                      \/ (Called("updateHealthMetrics")
                           /\ lastCall'.writes > 0))) =>
          /\ lastCall'.outcome = "return"
          /\ state'.set
          /\ (Called("addTransactions") =>
                 ListOf(state', "transactions")
                     = LedgerEntries(lastCall'.transactions))
          /\ (Called("storeNote") => Len(ListOf(state', "notes")) = 1)
          /\ (Called("updateHealthMetrics") =>
                 /\ Get(state', "weight") = lastCall'.weight
                 /\ Get(state', "height") = lastCall'.height)]_vars

\* C14: on a ledger of m >= 1 entries, getTransactionHistory with a limit
\* n >= 1 returns the last min(n, m) entries in ledger order, and with no
\* limit it returns all m entries in order.
C14_LastEntriesInOrder ==
    (lastCall.tool = "getTransactionHistory"
       /\ Len(ListOf(state, "transactions")) >= 1) =>
        LET ledger == ListOf(state, "transactions")
            m == Len(ledger)
            value == lastCall.result.value
        IN /\ lastCall.outcome = "return"
           /\ lastCall.result.found
           /\ (lastCall.limit = <<>> =>
                  /\ Len(value) = m
                  /\ \A i \in 1..m : value[i] = JsonLedgerEntry(ledger[i]))
           /\ ((lastCall.limit # <<>> /\ lastCall.limit[1] >= 1) =>
                  LET n == Min(lastCall.limit[1], m) IN
                    /\ Len(value) = n
                    /\ \A i \in 1..n :
                          value[i] = JsonLedgerEntry(ledger[m - n + i]))

C14_Witness ==
    /\ lastCall.tool = "getTransactionHistory"
    /\ lastCall.limit = <<2>>
    /\ Len(ListOf(state, "transactions")) = 3
    /\ state.val["transactions"][1] # state.val["transactions"][2]
    /\ state.val["transactions"][2] # state.val["transactions"][3]
    /\ Len(lastCall.result.value) = 2

\* what C15 expects of getNotes: the stored notes that carry the tag and,
\* when a query is given, hold it in title or content whatever the case
MatchesQuery(note, query) ==
    \/ Includes(ToLowerCase(note.title), ToLowerCase(query))
    \/ Includes(ToLowerCase(note.content), ToLowerCase(query))

NotesWithTag(notes, tag, query) ==
    LET Keep(note) ==
            /\ \E i \in 1..Len(note.tags) : note.tags[i] = tag
            /\ (query # <<>> => MatchesQuery(note, query[1]))
    IN SelectSeq(notes, Keep)

\* C15 as stated: on a non-empty notes list, getNotes with any tag t
\* returns exactly the notes whose tags contain t (and that match the query
\* when one is given), in stored order.
C15_TagFilterEveryTag ==
    (lastCall.tool = "getNotes" /\ Len(ListOf(state, "notes")) >= 1
       /\ lastCall.tag # <<>>) =>
        /\ lastCall.result.found
        /\ lastCall.result.value =
              JsonNotes(NotesWithTag(ListOf(state, "notes"),
                                     lastCall.tag[1], lastCall.query))

\* C15 amended: the same for every non-empty tag t.
C15_TagFilterNonEmptyTag ==
    (lastCall.tool = "getNotes" /\ Len(ListOf(state, "notes")) >= 1
       /\ lastCall.tag # <<>> /\ lastCall.tag[1] # "") =>
        /\ lastCall.result.found
        /\ lastCall.result.value =
              JsonNotes(NotesWithTag(ListOf(state, "notes"),
                                     lastCall.tag[1], lastCall.query))

C15_Witness ==
    /\ lastCall.tool = "getNotes"
    /\ lastCall.tag = <<"a">>
    /\ lastCall.query = <<>>
    /\ Len(ListOf(state, "notes")) = 2
    /\ state.val["notes"][1].tags = <<>>
    /\ state.val["notes"][2].tags = <<"b", "a">>
    /\ Len(lastCall.result.value) = 1

HasPart(response, kind) == \E i \in 1..Len(response) : response[i].k = kind

PartValue(response, kind) ==
    response[CHOOSE i \in 1..Len(response) : response[i].k = kind].v

\* the BMI both tools report for stored weight w and height h (h # 0):
\* getHealthMetrics the quotient w / (h/100)^2 (compared in whole
\* hundredths), updateHealthMetrics that quotient rounded to hundredths
ReportsBmi(w, h) ==
    /\ (lastCall.tool = "getHealthMetrics" =>
          /\ "bmi" \in DOMAIN lastCall.result.value
          /\ (lastCall.result.value["bmi"].num * 100)
                  \div lastCall.result.value["bmi"].den
                = (w * 1000000) \div (h * h)
          /\ ((w = 70 /\ h = 175) =>
                LET b == lastCall.result.value["bmi"]
                    d == b.num * 100 - 2286 * b.den
                IN d <= b.den /\ 0 - d <= b.den))
    /\ (lastCall.tool = "updateHealthMetrics" =>
          /\ HasPart(lastCall.result, "BMI")
          /\ LET d == PartValue(lastCall.result, "BMI") * h * h
                         - w * 1000000
             IN 2 * d <= h * h /\ 0 - (2 * d) <= h * h
          /\ ((w = 70 /\ h = 175) =>
                PartValue(lastCall.result, "BMI") = 2286))

OmitsBmi ==
    /\ (lastCall.tool = "getHealthMetrics" =>
          "bmi" \notin DOMAIN lastCall.result.value)
    /\ (lastCall.tool = "updateHealthMetrics" =>
          ~HasPart(lastCall.result, "BMI"))

HealthCallReturned ==
    /\ lastCall.tool \in {"getHealthMetrics", "updateHealthMetrics"}
    /\ lastCall.outcome = "return"
    /\ state.set

\* C16 as stated: whenever weight and height are both stored the two health
\* tools report BMI = weight / (height/100)^2, and when one is absent the
\* BMI is omitted.
C16_BmiWhenStored ==
    HealthCallReturned =>
        IF Has(state, "weight") /\ Has(state, "height")
        THEN /\ state.val["height"] # 0
             /\ ReportsBmi(state.val["weight"], state.val["height"])
        ELSE OmitsBmi

\* C16 amended: the BMI is reported, equal to weight / (height/100)^2,
\* when weight and height are both stored and non-zero; when either is
\* absent or zero it is omitted.
C16_BmiWhenStoredNonZero ==
    HealthCallReturned =>
        IF /\ Has(state, "weight") /\ state.val["weight"] # 0
           /\ Has(state, "height") /\ state.val["height"] # 0
        THEN ReportsBmi(state.val["weight"], state.val["height"])
        ELSE OmitsBmi

C16_Witness ==
    /\ lastCall.tool = "getHealthMetrics"
    /\ Get(state, "weight") = <<70>>
    /\ Get(state, "height") = <<175>>
    /\ "bmi" \in DOMAIN lastCall.result.value

\* C17: a read leaves the session state as it was, and a read that follows
\* the same read with no call in between returns the same result.
C17_ReadsIdempotent ==
    [][(\/ Called("getHealthMetrics")
        \/ Called("getTransactionHistory")
        \/ Called("getNotes")) =>
          /\ state' = state
          /\ ((lastCall.tool = "getHealthMetrics"
                 /\ Called("getHealthMetrics")) =>
                 lastCall'.result = lastCall.result)
          /\ ((lastCall.tool = "getTransactionHistory"
                 /\ Called("getTransactionHistory")
                 /\ lastCall'.limit = lastCall.limit) =>
                 lastCall'.result = lastCall.result)
          /\ ((lastCall.tool = "getNotes" /\ Called("getNotes")
                 /\ lastCall'.tag = lastCall.tag
                 /\ lastCall'.query = lastCall.query) =>
                 lastCall'.result = lastCall.result)]_vars

C17_Witness ==
    /\ lastCall.tool = "getHealthMetrics"
    /\ lastCall.result.found
    /\ "bmi" \in DOMAIN lastCall.result.value
    /\ Len(ListOf(state, "notes")) >= 1
    /\ Len(ListOf(state, "transactions")) >= 1

\* C18: on a non-empty ledger, getTransactionHistory given a limit never
\* returns more than limit entries.
C18_LimitBoundsResult ==
    (lastCall.tool = "getTransactionHistory" /\ lastCall.limit # <<>>
       /\ Len(ListOf(state, "transactions")) >= 1) =>
        Len(lastCall.result.value) <= lastCall.limit[1]

\* C19: every tool call keeps the ledger and the notes list as prefixes of
\* their new values (a list that exists keeps existing), and a successful
\* addTransactions appends exactly its batch, in the order given.
C19_AppendOnly ==
    [][/\ (Has(state, "transactions") => Has(state', "transactions"))
       /\ (Has(state, "notes") => Has(state', "notes"))
       /\ IsPrefix(ListOf(state, "transactions"),
                   ListOf(state', "transactions"))
       /\ IsPrefix(ListOf(state, "notes"), ListOf(state', "notes"))
       /\ ((Called("addTransactions") /\ lastCall'.outcome = "return") =>
             LET old == ListOf(state, "transactions")
                 new == ListOf(state', "transactions")
                 batch == lastCall'.transactions
             IN /\ Len(new) = Len(old) + Len(batch)
                /\ \A i \in 1..Len(batch) :
                      /\ new[Len(old) + i].description = batch[i].description
                      /\ new[Len(old) + i].amount = batch[i].amount
                      /\ new[Len(old) + i].date = NewDate(batch[i].date))]_vars

C19_Witness ==
    /\ lastCall.tool = "addTransactions"
    /\ lastCall.outcome = "return"
    /\ Len(lastCall.transactions) = 2
    /\ lastCall.transactions[1] # lastCall.transactions[2]
    /\ Len(ListOf(state, "transactions")) = 3
    /\ Len(ListOf(state, "notes")) >= 1

\* C20: an updateHealthMetrics call given both weight and height makes two
\* state writes and ends with both new values stored, and every value its
\* response reports is the stored one.
C20_BothValuesStored ==
    (lastCall.tool = "updateHealthMetrics"
       /\ lastCall.weight # <<>> /\ lastCall.height # <<>>) =>
        /\ lastCall.outcome = "return"
        /\ lastCall.writes = 2
        /\ Get(state, "weight") = lastCall.weight
        /\ Get(state, "height") = lastCall.height
        /\ (HasPart(lastCall.result, "Weight") =>
               <<PartValue(lastCall.result, "Weight")>> = Get(state, "weight"))
        /\ (HasPart(lastCall.result, "Height") =>
               <<PartValue(lastCall.result, "Height")>> = Get(state, "height"))

C20_Witness ==
    /\ lastCall.tool = "updateHealthMetrics"
    /\ lastCall.weight = <<70>>
    /\ lastCall.height = <<175>>
    /\ HasPart(lastCall.result, "Weight")
    /\ HasPart(lastCall.result, "Height")
    /\ Len(ListOf(state, "notes")) >= 1
====
